---- MODULE Spec2Model ----
(***************************************************************************)
(* Model of the Euler trail core of backend/app.py:                        *)
(*   _mixed_connectivity_ok, _analyze_mixed_graph, _hierholzer_mixed       *)
(*   (with its nested find_circuit) and the mixed branch of                *)
(*   find_euler_trail; for the legacy format, _choose_start_undirected,    *)
(*   _choose_start_directed, _hierholzer_undirected, _hierholzer_directed  *)
(*   and the legacy branch of find_euler_trail.                            *)
(* Vertices are 1..NumVertices, edge ids are naturals, None is 0.          *)
(***************************************************************************)
EXTENDS Integers, Sequences, FiniteSets, TLC

NumVertices == 4
MaxEdges == 3

Vertices == 1..NumVertices
None == 0

VARIABLES
  nodes,            \* the vertex set handed to the core
  edges,            \* the ordered edge list, records id/source/target/directed
  graph_type,       \* request format: "mixed" (edges carry 'directed'), else the legacy graph_type
  pc,               \* position of the computation
  analysis,         \* result of _analyze_mixed_graph
  adj,              \* _hierholzer_mixed: vertex -> list of <<edge id, other endpoint>>
  stack,            \* find_circuit: vertex stack
  fc_circuit,       \* find_circuit: vertices in the order they were popped
  fc_used,          \* find_circuit: its local used_edges
  remaining_edges,  \* find_circuit: its local copy of adj
  stack_e,          \* history: id of the edge that pushed each stack entry above the first
                    \* (the legacy loops keep this stack themselves)
  circuit_e,        \* history: those ids in the order their vertices were popped
  start_vertex,     \* splice loop: vertex the running find_circuit was restarted from
  circuit,          \* _hierholzer_mixed: the main circuit
  used_edges,       \* _hierholzer_mixed: edge ids used so far
  path,             \* _hierholzer_mixed: the reversed circuit
  trail,            \* return value of _hierholzer_mixed
  response          \* JSON body answered by find_euler_trail

vars == <<nodes, edges, graph_type, pc, analysis, adj, stack, fc_circuit, fc_used, remaining_edges,
          stack_e, circuit_e, start_vertex, circuit, used_edges, path, trail, response>>

-----------------------------------------------------------------------------
(* Small helpers on sequences and sets *)

Reverse(s) == [i \in 1..Len(s) |-> s[Len(s) + 1 - i]]

RemoveAt(s, i) == [k \in 1..(Len(s) - 1) |-> IF k < i THEN s[k] ELSE s[k + 1]]

Range(s) == {s[i] : i \in DOMAIN s}

\* the members of S in increasing order
RECURSIVE SortedSeq(_)
SortedSeq(S) ==
  IF S = {} THEN <<>>
  ELSE LET x == CHOOSE y \in S : \A z \in S : y <= z
       IN <<x>> \o SortedSeq(S \ {x})

\* Iteration orders of a Python set holding S.  The order depends on the hash
\* layout and is not fixed by the language.  The code uses it only to take the
\* first member that passes a test, so the rotations of one order are kept:
\* every member comes first in one of them, and that gives every outcome.
IterationOrders(S) ==
  IF S = {} THEN {<<>>}
  ELSE LET s == SortedSeq(S)
           n == Len(s)
       IN {[i \in 1..n |-> s[((i + k - 2) % n) + 1]] : k \in 1..n}

-----------------------------------------------------------------------------
(* The input graph *)

Endpoints(es) == {es[i].source : i \in DOMAIN es} \cup {es[i].target : i \in DOMAIN es}

\* Vertex identifiers are opaque to the code (compared for equality only), so
\* the graphs are taken up to renaming: the vertices are numbered in the order
\* in which the edge list first mentions them.
CanFollow(es, e) ==
  LET m == Cardinality(Endpoints(es))
      top(k) == IF k < NumVertices THEN k + 1 ELSE NumVertices
  IN /\ e.source <= top(m)
     /\ e.target <= (IF e.source > m THEN top(e.source) ELSE top(m))

RECURSIVE EdgeLists(_)
EdgeLists(n) ==
  IF n = 0 THEN {<<>>}
  ELSE LET cand == [id : {n}, source : Vertices, target : Vertices, directed : BOOLEAN]
       IN {Append(p[1], p[2]) : p \in {q \in EdgeLists(n - 1) \X cand : CanFollow(q[1], q[2])}}

DirectedEdges(es) == SelectSeq(es, LAMBDA e : e.directed)

UndirectedEdges(es) == SelectSeq(es, LAMBDA e : ~e.directed)

-----------------------------------------------------------------------------
(* _mixed_connectivity_ok *)

\* ConnBuild with a directed edge linking its source to its target only
RECURSIVE ConnBuildOneWay(_, _, _)
ConnBuildOneWay(es, i, acc) ==
  IF i > Len(es) THEN acc
  ELSE LET u == es[i].source
           v == es[i].target
           a1 == [acc.adj EXCEPT ![u] = @ \cup {v}]
           a2 == IF es[i].directed THEN a1 ELSE [a1 EXCEPT ![v] = @ \cup {u}]
       IN ConnBuildOneWay(es, i + 1, [adj |-> a2, vertices_with_edges |-> acc.vertices_with_edges \cup {u, v}])

\* the loop over edges building adj (sets of neighbours) and vertices_with_edges
RECURSIVE ConnBuild(_, _, _)
ConnBuild(es, i, acc) ==
  IF i > Len(es) THEN acc
  ELSE LET u == es[i].source
           v == es[i].target
           a1 == [acc.adj EXCEPT ![u] = @ \cup {v}]
           a2 == [a1 EXCEPT ![v] = @ \cup {u}]
       IN ConnBuild(es, i + 1, [adj |-> a2, vertices_with_edges |-> acc.vertices_with_edges \cup {u, v}])

\* the BFS while loop; a whole neighbour set is scanned per dequeued node
RECURSIVE ConnBfs(_, _, _)
ConnBfs(cadj, queue, visited) ==
  IF queue = <<>> THEN visited
  ELSE LET node == Head(queue)
           fresh == cadj[node] \ visited
       IN ConnBfs(cadj, Tail(queue) \o SortedSeq(fresh), visited \cup fresh)

\* bfsStart stands for next(iter(vertices_with_edges)): any member of the set
_mixed_connectivity_ok(es, bfsStart) ==
  LET b == ConnBuild(es, 1, [adj |-> [v \in Vertices |-> {}], vertices_with_edges |-> {}])
  IN IF b.vertices_with_edges = {} THEN TRUE
     ELSE ConnBfs(b.adj, <<bfsStart>>, {bfsStart}) = b.vertices_with_edges

\* next(iter(vertices_with_edges)): the first member, in the iteration order,
\* that has an edge.  Every vertex with an edge is that member in some order.
RECURSIVE BfsStart(_, _, _)
BfsStart(order, i, es) ==
  IF i > Len(order) THEN None
  ELSE IF order[i] \in Endpoints(es) THEN order[i]
  ELSE BfsStart(order, i + 1, es)

-----------------------------------------------------------------------------
(* _analyze_mixed_graph *)

ZeroDegree == [v \in Vertices |-> 0]

\* loop over directed_edges
RECURSIVE DegreeDirected(_, _, _)
DegreeDirected(es, i, d) ==
  IF i > Len(es) THEN d
  ELSE DegreeDirected(es, i + 1,
         [in_degree |-> [d.in_degree EXCEPT ![es[i].target] = @ + 1],
          out_degree |-> [d.out_degree EXCEPT ![es[i].source] = @ + 1]])

\* DegreeUndirected counting an undirected edge as out at its source and in
\* at its target only
RECURSIVE DegreeUndirectedOneWay(_, _, _)
DegreeUndirectedOneWay(es, i, d) ==
  IF i > Len(es) THEN d
  ELSE DegreeUndirectedOneWay(es, i + 1,
         [in_degree |-> [d.in_degree EXCEPT ![es[i].target] = @ + 1],
          out_degree |-> [d.out_degree EXCEPT ![es[i].source] = @ + 1]])

\* loop over undirected_edges
RECURSIVE DegreeUndirected(_, _, _)
DegreeUndirected(es, i, d) ==
  IF i > Len(es) THEN d
  ELSE LET i1 == [d.in_degree EXCEPT ![es[i].source] = @ + 1]
           o1 == [d.out_degree EXCEPT ![es[i].source] = @ + 1]
           i2 == [i1 EXCEPT ![es[i].target] = @ + 1]
           o2 == [o1 EXCEPT ![es[i].target] = @ + 1]
       IN DegreeUndirected(es, i + 1, [in_degree |-> i2, out_degree |-> o2])

Degrees(es) ==
  DegreeUndirected(UndirectedEdges(es), 1,
    DegreeDirected(DirectedEdges(es), 1, [in_degree |-> ZeroDegree, out_degree |-> ZeroDegree]))

\* the classification loop "for node in nodes", in the set's iteration order
RECURSIVE Classify(_, _, _, _)
Classify(order, i, d, acc) ==
  IF i > Len(order) THEN acc
  ELSE LET node == order[i]
           ind == d.in_degree[node]
           outd == d.out_degree[node]
       IN IF ind = 0 /\ outd = 0 THEN Classify(order, i + 1, d, acc)
          ELSE IF ind = outd THEN Classify(order, i + 1, d, acc)
          ELSE IF outd - ind = 1
            THEN Classify(order, i + 1, d, [acc EXCEPT !.start_candidates = Append(@, node)])
          ELSE IF ind - outd = 1
            THEN Classify(order, i + 1, d, [acc EXCEPT !.end_candidates = Append(@, node)])
          ELSE Classify(order, i + 1, d, [acc EXCEPT !.problematic_nodes = Append(@, node)])

\* next((n for n in nodes if out_degree[n] > 0), None)
RECURSIVE FirstWithOutDegree(_, _, _)
FirstWithOutDegree(order, i, d) ==
  IF i > Len(order) THEN None
  ELSE IF d.out_degree[order[i]] > 0 THEN order[i]
  ELSE FirstWithOutDegree(order, i + 1, d)

Verdict(isOk, s, r, t, e) == [ok |-> isOk, start |-> s, reason |-> r, type |-> t, end |-> e]

_analyze_mixed_graph(order, es, bfsStart) ==
  LET d == Degrees(es)
      c == Classify(order, 1, d, [start_candidates |-> <<>>, end_candidates |-> <<>>, problematic_nodes |-> <<>>])
  IN IF ~_mixed_connectivity_ok(es, bfsStart)
       THEN Verdict(FALSE, None, "Graph is not connected", "none", None)
     ELSE IF c.problematic_nodes # <<>>
       THEN Verdict(FALSE, None, "invalid degree balance", "none", None)
     ELSE IF Len(c.start_candidates) = 0 /\ Len(c.end_candidates) = 0
       THEN Verdict(TRUE, FirstWithOutDegree(order, 1, d), "Euler cycle found", "cycle", None)
     ELSE IF Len(c.start_candidates) = 1 /\ Len(c.end_candidates) = 1
       THEN Verdict(TRUE, c.start_candidates[1], "Euler path found", "path", c.end_candidates[1])
     ELSE Verdict(FALSE, None, "Invalid start/end configuration", "none", None)

NoVerdict == Verdict(FALSE, None, "", "none", None)

-----------------------------------------------------------------------------
(* _hierholzer_mixed *)

EmptyAdj == [v \in Vertices |-> <<>>]

\* BuildAdj entering an undirected edge at its source only
RECURSIVE BuildAdjOneWay(_, _, _)
BuildAdjOneWay(es, i, a) ==
  IF i > Len(es) THEN a
  ELSE BuildAdjOneWay(es, i + 1,
         [a EXCEPT ![es[i].source] = Append(@, <<es[i].id, es[i].target>>)])

\* the loop building the adjacency lists
RECURSIVE BuildAdj(_, _, _)
BuildAdj(es, i, a) ==
  IF i > Len(es) THEN a
  ELSE LET e == es[i]
           a1 == [a EXCEPT ![e.source] = Append(@, <<e.id, e.target>>)]
           a2 == IF ~e.directed
                   THEN [a1 EXCEPT ![e.target] = Append(@, <<e.id, e.source>>)]
                   ELSE a1
       IN BuildAdj(es, i + 1, a2)

\* FirstUnused taking the last unused option instead of the first
RECURSIVE LastUnused(_, _, _)
LastUnused(lst, i, used) ==
  IF i > Len(lst) THEN 0
  ELSE IF lst[Len(lst) + 1 - i][1] \notin used THEN Len(lst) + 1 - i
  ELSE LastUnused(lst, i + 1, used)

\* find_circuit: position of the first option of lst whose edge id is unused, 0 if none
RECURSIVE FirstUnused(_, _, _)
FirstUnused(lst, i, used) ==
  IF i > Len(lst) THEN 0
  ELSE IF lst[i][1] \notin used THEN i
  ELSE FirstUnused(lst, i + 1, used)

\* find_circuit: position of the reverse option <<eid, curr>> in lst, 0 if none
RECURSIVE FirstReverse(_, _, _, _)
FirstReverse(lst, j, eid, curr) ==
  IF j > Len(lst) THEN 0
  ELSE IF lst[j][1] = eid /\ lst[j][2] = curr THEN j
  ELSE FirstReverse(lst, j + 1, eid, curr)

\* next(e for e in edges if e['id'] == eid)
RECURSIVE EdgeObj(_, _, _)
EdgeObj(es, k, eid) ==
  IF es[k].id = eid THEN es[k] ELSE EdgeObj(es, k + 1, eid)

\* find_circuit: remaining_edges after the option at position i of curr is taken
TakeOption(rem, es, curr, i) ==
  LET eid == rem[curr][i][1]
      next_vertex == rem[curr][i][2]
      r1 == [rem EXCEPT ![curr] = RemoveAt(@, i)]
      j == FirstReverse(r1[next_vertex], 1, eid, curr)
  IN IF ~EdgeObj(es, 1, eid).directed /\ j # 0
       THEN [r1 EXCEPT ![next_vertex] = RemoveAt(@, j)]
       ELSE r1

\* splice loop: first vertex of the circuit that still has an option with an unused id
RECURSIVE FirstWithUnused(_, _, _, _)
FirstWithUnused(circ, i, a, used) ==
  IF i > Len(circ) THEN None
  ELSE IF Cardinality({k \in DOMAIN a[circ[i]] : a[circ[i]][k][1] \notin used}) > 0 THEN circ[i]
  ELSE FirstWithUnused(circ, i + 1, a, used)

\* circuit.index(start_vertex)
RECURSIVE IndexOf(_, _, _)
IndexOf(s, i, x) ==
  IF s[i] = x THEN i ELSE IndexOf(s, i + 1, x)

\* circuit[:insert_index] + new_circuit[::-1] + circuit[insert_index + 1:]
Splice(circ, new_circuit, sv) ==
  LET k == IndexOf(circ, 1, sv)
  IN SubSeq(circ, 1, k - 1) \o Reverse(new_circuit) \o SubSeq(circ, k + 1, Len(circ))

\* MatchEdge without the test that skips edges already in the sequence
RECURSIVE MatchEdgeNoSkip(_, _, _, _, _)
MatchEdgeNoSkip(es, k, u, v, seq) ==
  IF k > Len(es) THEN None
  ELSE LET e == es[k]
       IN IF e.source = u /\ e.target = v THEN e.id
          ELSE IF ~e.directed /\ e.source = v /\ e.target = u THEN e.id
          ELSE MatchEdgeNoSkip(es, k + 1, u, v, seq)

\* conversion, inner loop: first edge not yet in the sequence that joins u to v
RECURSIVE MatchEdge(_, _, _, _, _)
MatchEdge(es, k, u, v, seq) ==
  IF k > Len(es) THEN None
  ELSE LET e == es[k]
       IN IF e.id \in Range(seq) THEN MatchEdge(es, k + 1, u, v, seq)
          ELSE IF e.source = u /\ e.target = v THEN e.id
          ELSE IF ~e.directed /\ e.source = v /\ e.target = u THEN e.id
          ELSE MatchEdge(es, k + 1, u, v, seq)

NoTrail == [none |-> TRUE, ids |-> <<>>]

\* conversion, outer loop over consecutive path vertices
RECURSIVE EdgeSequence(_, _, _, _)
EdgeSequence(es, p, i, seq) ==
  IF i > Len(p) - 1 THEN [none |-> FALSE, ids |-> seq]
  ELSE LET found_edge == MatchEdge(es, 1, p[i], p[i + 1], seq)
       IN IF found_edge # None
            THEN EdgeSequence(es, p, i + 1, Append(seq, found_edge))
            ELSE NoTrail

\* the vertex path turned into the returned edge sequence, or None
ConvertPath(es, p) ==
  IF Len(p) < 2 THEN NoTrail
  ELSE LET r == EdgeSequence(es, p, 1, <<>>)
       IN IF r.none THEN NoTrail
          ELSE IF Len(r.ids) = Len(es) THEN r
          ELSE NoTrail

-----------------------------------------------------------------------------
(* find_euler_trail, mixed branch *)

\* edge_map = {edge['id']: edge for edge in edges}: the last edge carrying the id
EdgeMap(es, eid) ==
  es[CHOOSE k \in DOMAIN es : es[k].id = eid /\ \A m \in DOMAIN es : es[m].id = eid => m <= k]

TrailSteps(es, ids) ==
  [i \in 1..Len(ids) |->
     [step |-> i, edge_id |-> ids[i], source |-> EdgeMap(es, ids[i]).source,
      target |-> EdgeMap(es, ids[i]).target, directed |-> EdgeMap(es, ids[i]).directed]]

Failure(msg) == [success |-> FALSE, error |-> msg, trail |-> <<>>]

NoResponse == Failure("")

-----------------------------------------------------------------------------
(* Legacy format: _undirected_connectivity_ok, _choose_start_undirected,   *)
(* _choose_start_directed                                                  *)

\* deg[u] += 1; deg[v] += 1 for every edge
RECURSIVE UndirectedDeg(_, _, _)
UndirectedDeg(es, i, deg) ==
  IF i > Len(es) THEN deg
  ELSE LET d1 == [deg EXCEPT ![es[i].source] = @ + 1]
       IN UndirectedDeg(es, i + 1, [d1 EXCEPT ![es[i].target] = @ + 1])

\* g[u].append(v); g[v].append(u): the neighbours the BFS scans from each vertex
UndirectedLinks(es) ==
  [x \in Vertices |-> {es[k].target : k \in {j \in DOMAIN es : es[j].source = x}}
                        \cup {es[k].source : k \in {j \in DOMAIN es : es[j].target = x}}]

\* bfsStart stands for next(iter(non_isolated)): any member of the set
_undirected_connectivity_ok(ns, es, bfsStart) ==
  LET deg == UndirectedDeg(es, 1, ZeroDegree)
      non_isolated == {u \in ns : deg[u] > 0}
  IN IF non_isolated = {} THEN TRUE
     ELSE ConnBfs(UndirectedLinks(es), <<bfsStart>>, {bfsStart}) = non_isolated

\* next((u for u in nodes if deg[u] > 0), None)
RECURSIVE FirstWithDegree(_, _, _)
FirstWithDegree(order, i, deg) ==
  IF i > Len(order) THEN None
  ELSE IF deg[order[i]] > 0 THEN order[i]
  ELSE FirstWithDegree(order, i + 1, deg)

\* the returned (ok, start, reason), kept as a verdict without type and end
_choose_start_undirected(order, es) ==
  LET deg == UndirectedDeg(es, 1, ZeroDegree)
      odd == SelectSeq(order, LAMBDA u : deg[u] % 2 = 1)
      start == FirstWithDegree(order, 1, deg)
  IN IF ~_undirected_connectivity_ok(Range(order), es, BfsStart(order, 1, es))
       THEN Verdict(FALSE, None, "Graph is not connected", "none", None)
     ELSE IF Len(odd) = 0
       THEN IF start = None THEN Verdict(FALSE, None, "Graph has no edges", "none", None)
            ELSE Verdict(TRUE, start, "", "none", None)
     ELSE IF Len(odd) = 2 THEN Verdict(TRUE, odd[1], "", "none", None)
     ELSE Verdict(FALSE, None,
                  "Found " \o ToString(Len(odd)) \o " vertices of odd degree (need 0 or 2)",
                  "none", None)

\* the loop "for u in nodes" of _choose_start_directed; invalid is the vertex
\* at which it returns early, None if it runs to the end
RECURSIVE ClassifyDirected(_, _, _, _)
ClassifyDirected(order, i, d, acc) ==
  IF i > Len(order) THEN acc
  ELSE LET u == order[i]
           diff == d.out_degree[u] - d.in_degree[u]
       IN IF diff = 1
            THEN ClassifyDirected(order, i + 1, d, [acc EXCEPT !.start_candidates = Append(@, u)])
          ELSE IF diff = -1
            THEN ClassifyDirected(order, i + 1, d, [acc EXCEPT !.end_candidates = Append(@, u)])
          ELSE IF diff # 0 THEN [acc EXCEPT !.invalid = u]
          ELSE ClassifyDirected(order, i + 1, d, acc)

\* the returned (ok, start, reason), kept as a verdict without type and end
_choose_start_directed(order, es) ==
  LET d == DegreeDirected(es, 1, [in_degree |-> ZeroDegree, out_degree |-> ZeroDegree])
      c == ClassifyDirected(order, 1, d,
             [start_candidates |-> <<>>, end_candidates |-> <<>>, invalid |-> None])
      start == FirstWithOutDegree(order, 1, d)
  IN IF c.invalid # None
       THEN Verdict(FALSE, None, "Invalid degree balance at " \o ToString(c.invalid),
                    "none", None)
     ELSE IF Len(c.start_candidates) = 0 /\ Len(c.end_candidates) = 0
       THEN IF start = None THEN Verdict(FALSE, None, "Graph has no edges", "none", None)
            ELSE Verdict(TRUE, start, "", "none", None)
     ELSE IF Len(c.start_candidates) = 1 /\ Len(c.end_candidates) = 1
       THEN Verdict(TRUE, c.start_candidates[1], "", "none", None)
     ELSE Verdict(FALSE, None, "Need exactly one start and one end vertex", "none", None)

-----------------------------------------------------------------------------
(* Legacy format: _hierholzer_undirected, _hierholzer_directed and the     *)
(* legacy branch of find_euler_trail                                       *)

\* adj of _hierholzer_undirected: both endpoints get an option
RECURSIVE AdjUndirected(_, _, _)
AdjUndirected(es, i, a) ==
  IF i > Len(es) THEN a
  ELSE LET a1 == [a EXCEPT ![es[i].source] = Append(@, <<es[i].id, es[i].target>>)]
       IN AdjUndirected(es, i + 1,
            [a1 EXCEPT ![es[i].target] = Append(@, <<es[i].id, es[i].source>>)])

\* adj of _hierholzer_directed: only the source gets an option
RECURSIVE AdjDirected(_, _, _)
AdjDirected(es, i, a) ==
  IF i > Len(es) THEN a
  ELSE AdjDirected(es, i + 1,
         [a EXCEPT ![es[i].source] = Append(@, <<es[i].id, es[i].target>>)])

\* PopOption leaving the list as it was
KeepOption(lst) == lst

\* iters[v].pop(): the list left when its last option is taken
PopOption(lst) == SubSeq(lst, 1, Len(lst) - 1)

\* steps of the legacy answer: no 'directed' key
LegacyTrailSteps(es, ids) ==
  [i \in 1..Len(ids) |->
     [step |-> i, edge_id |-> ids[i], source |-> EdgeMap(es, ids[i]).source,
      target |-> EdgeMap(es, ids[i]).target]]

-----------------------------------------------------------------------------
(* State machine *)

Init ==
  /\ \E n \in 0..MaxEdges : edges \in EdgeLists(n)
  /\ \E m \in Cardinality(Endpoints(edges))..NumVertices : nodes = 1..m
  /\ graph_type = "mixed"
  /\ pc = "start"
  /\ analysis = NoVerdict
  /\ adj = EmptyAdj
  /\ stack = <<>>
  /\ fc_circuit = <<>>
  /\ fc_used = {}
  /\ remaining_edges = EmptyAdj
  /\ stack_e = <<>>
  /\ circuit_e = <<>>
  /\ start_vertex = None
  /\ circuit = <<>>
  /\ used_edges = {}
  /\ path = <<>>
  /\ trail = NoTrail
  /\ response = NoResponse

\* a call of _analyze_mixed_graph(nodes, edges); the iteration order of the
\* sets is whatever the set layout gives
AnalyzeMixedGraph ==
  /\ pc = "start"
  /\ graph_type = "mixed"
  /\ \E order \in IterationOrders(nodes) :
       analysis' = _analyze_mixed_graph(order, edges, BfsStart(order, 1, edges))
  /\ pc' = "analyzed"
  /\ UNCHANGED <<nodes, edges, graph_type, adj, stack, fc_circuit, fc_used, remaining_edges, stack_e,
                 circuit_e, start_vertex, circuit, used_edges, path, trail, response>>

\* _hierholzer_mixed up to the first find_circuit(start).  Its own call of
\* _analyze_mixed_graph walks the same unmodified set, so it returns analysis.
HierholzerBegin ==
  /\ pc = "analyzed"
  /\ adj' = BuildAdj(edges, 1, EmptyAdj)
  /\ IF ~analysis.ok \/ analysis.start = None
       THEN /\ trail' = NoTrail
            /\ pc' = "built"
            /\ UNCHANGED <<stack, remaining_edges>>
       ELSE /\ stack' = <<analysis.start>>
            /\ remaining_edges' = adj'
            /\ pc' = "find_circuit"
            /\ UNCHANGED trail
  /\ UNCHANGED <<nodes, edges, graph_type, analysis, fc_circuit, fc_used, stack_e, circuit_e,
                 start_vertex, circuit, used_edges, path, response>>

\* find_circuit, one iteration of the while loop that finds an unused edge
FindCircuitUseEdge ==
  /\ pc = "find_circuit"
  /\ stack # <<>>
  /\ LET curr == stack[Len(stack)]
         i == FirstUnused(remaining_edges[curr], 1, fc_used)
     IN /\ i # 0
        /\ fc_used' = fc_used \cup {remaining_edges[curr][i][1]}
        /\ stack' = Append(stack, remaining_edges[curr][i][2])
        /\ stack_e' = Append(stack_e, remaining_edges[curr][i][1])
        /\ remaining_edges' = TakeOption(remaining_edges, edges, curr, i)
  /\ UNCHANGED <<nodes, edges, graph_type, pc, analysis, adj, fc_circuit, circuit_e, start_vertex,
                 circuit, used_edges, path, trail, response>>

\* find_circuit, one iteration of the while loop that finds no unused edge
FindCircuitBacktrack ==
  /\ pc = "find_circuit"
  /\ stack # <<>>
  /\ FirstUnused(remaining_edges[stack[Len(stack)]], 1, fc_used) = 0
  /\ fc_circuit' = Append(fc_circuit, stack[Len(stack)])
  /\ stack' = SubSeq(stack, 1, Len(stack) - 1)
  /\ IF stack_e # <<>>
       THEN /\ circuit_e' = Append(circuit_e, stack_e[Len(stack_e)])
            /\ stack_e' = SubSeq(stack_e, 1, Len(stack_e) - 1)
       ELSE UNCHANGED <<stack_e, circuit_e>>
  /\ UNCHANGED <<nodes, edges, graph_type, pc, analysis, adj, fc_used, remaining_edges, start_vertex,
                 circuit, used_edges, path, trail, response>>

\* find_circuit returns; the caller stores (line 355) or splices (lines 373-377)
FindCircuitReturn ==
  /\ pc = "find_circuit"
  /\ stack = <<>>
  /\ IF start_vertex = None
       THEN /\ circuit' = fc_circuit
            /\ used_edges' = fc_used
       ELSE /\ used_edges' = used_edges \cup fc_used
            /\ circuit' = Splice(circuit, fc_circuit, start_vertex)
  /\ pc' = "splice"
  /\ UNCHANGED <<nodes, edges, graph_type, analysis, adj, stack, fc_circuit, fc_used, remaining_edges,
                 stack_e, circuit_e, start_vertex, path, trail, response>>

\* the test of "while len(used_edges) < len(edges)" and the body up to the
\* break or the next find_circuit(start_vertex)
SpliceLoop ==
  /\ pc = "splice"
  /\ IF Cardinality(used_edges) < Len(edges)
       THEN LET sv == FirstWithUnused(circuit, 1, adj, used_edges)
            IN IF sv = None
                 THEN /\ pc' = "convert"
                      /\ UNCHANGED <<stack, fc_circuit, fc_used, remaining_edges, stack_e,
                                     start_vertex>>
                 ELSE /\ start_vertex' = sv
                      /\ stack' = <<sv>>
                      /\ fc_circuit' = <<>>
                      /\ fc_used' = {}
                      /\ remaining_edges' = adj
                      /\ stack_e' = <<>>
                      /\ pc' = "find_circuit"
       ELSE /\ pc' = "convert"
            /\ UNCHANGED <<stack, fc_circuit, fc_used, remaining_edges, stack_e, start_vertex>>
  /\ UNCHANGED <<nodes, edges, graph_type, analysis, adj, circuit_e, circuit, used_edges, path, trail,
                 response>>

\* the rest of _hierholzer_mixed: reverse the circuit, re-match edges, return
HierholzerConvert ==
  /\ pc = "convert"
  /\ path' = Reverse(circuit)
  /\ trail' = ConvertPath(edges, path')
  /\ pc' = "built"
  /\ UNCHANGED <<nodes, edges, graph_type, analysis, adj, stack, fc_circuit, fc_used, remaining_edges,
                 stack_e, circuit_e, start_vertex, circuit, used_edges, response>>

\* the answer of find_euler_trail for this graph
FindEulerTrailRespond ==
  /\ pc = "built"
  /\ response' =
       IF edges = <<>> THEN Failure("No edges provided")
       ELSE IF ~analysis.ok THEN Failure(analysis.reason)
       ELSE IF trail.none THEN Failure("Could not construct Euler trail")
       ELSE [success |-> TRUE, error |-> "", trail |-> TrailSteps(edges, trail.ids)]
  /\ pc' = "done"
  /\ UNCHANGED <<nodes, edges, graph_type, analysis, adj, stack, fc_circuit, fc_used, remaining_edges,
                 stack_e, circuit_e, start_vertex, circuit, used_edges, path, trail>>

Next ==
  \/ AnalyzeMixedGraph
  \/ HierholzerBegin
  \/ FindCircuitUseEdge
  \/ FindCircuitBacktrack
  \/ FindCircuitReturn
  \/ SpliceLoop
  \/ HierholzerConvert
  \/ FindEulerTrailRespond

Spec == Init /\ [][Next]_vars

-----------------------------------------------------------------------------
(* Legacy requests and requests with repeated edge ids *)

TermVertices == 2
TermEdges == 2

\* Edge ids are opaque to the code (compared for equality only), so the id
\* assignments are taken up to renaming: an edge carries either an id already
\* seen or the next fresh one.
RECURSIVE IdPatterns(_)
IdPatterns(n) ==
  IF n = 0 THEN {<<>>}
  ELSE {Append(q[1], q[2]) :
          q \in {r \in IdPatterns(n - 1) \X (1..n) :
                   r[2] <= Cardinality(Range(r[1])) + 1}}

\* the edge list es carrying the ids of the pattern
Retag(es, ids) == [k \in DOMAIN es |-> [es[k] EXCEPT !.id = ids[k]]]

\* Edge lists of n edges on at most TermVertices vertices.  A legacy edge has
\* no 'directed' key; its record carries the kind graph_type gives every edge.
TermGraphs(n, gt) ==
  {Retag(p[1], p[2]) :
     p \in {es \in EdgeLists(n) :
              /\ Endpoints(es) \subseteq 1..TermVertices
              /\ gt # "mixed" => \A k \in DOMAIN es : es[k].directed = (gt = "directed")}
           \X IdPatterns(n)}

\* An empty edge list has no format and is taken with the mixed requests.
InitTerm ==
  /\ \E gt \in {"mixed", "undirected", "directed"} :
       /\ graph_type = gt
       /\ \E n \in (IF gt = "mixed" THEN 0 ELSE 1)..TermEdges : edges \in TermGraphs(n, gt)
  /\ \E m \in Cardinality(Endpoints(edges))..TermVertices : nodes = 1..m
  /\ pc = "start"
  /\ analysis = NoVerdict
  /\ adj = EmptyAdj
  /\ stack = <<>>
  /\ fc_circuit = <<>>
  /\ fc_used = {}
  /\ remaining_edges = EmptyAdj
  /\ stack_e = <<>>
  /\ circuit_e = <<>>
  /\ start_vertex = None
  /\ circuit = <<>>
  /\ used_edges = {}
  /\ path = <<>>
  /\ trail = NoTrail
  /\ response = NoResponse

\* _hierholzer_undirected / _hierholzer_directed up to the stack loop: adj,
\* the start selection (kept in analysis), then stack, used and iters
\* (kept in stack, fc_used and remaining_edges)
LegacyBegin ==
  /\ pc = "start"
  /\ graph_type # "mixed"
  /\ adj' = IF graph_type = "undirected" THEN AdjUndirected(edges, 1, EmptyAdj)
            ELSE AdjDirected(edges, 1, EmptyAdj)
  /\ \E order \in IterationOrders(nodes) :
       analysis' = IF graph_type = "undirected" THEN _choose_start_undirected(order, edges)
                   ELSE _choose_start_directed(order, edges)
  /\ IF ~analysis'.ok \/ analysis'.start = None
       THEN /\ trail' = NoTrail
            /\ pc' = "legacy_built"
            /\ UNCHANGED <<stack, remaining_edges>>
       ELSE /\ stack' = <<analysis'.start>>
            /\ remaining_edges' = adj'
            /\ pc' = "legacy_loop"
            /\ UNCHANGED trail
  /\ UNCHANGED <<nodes, edges, graph_type, fc_circuit, fc_used, stack_e, circuit_e,
                 start_vertex, circuit, used_edges, path, response>>

\* one iteration of the inner loop "while iters.get(v)": the last option of
\* the top vertex is popped and, unless its id is used, followed
LegacyTakeOption ==
  /\ pc = "legacy_loop"
  /\ stack # <<>>
  /\ LET v == stack[Len(stack)]
         opt == remaining_edges[v][Len(remaining_edges[v])]
     IN /\ remaining_edges[v] # <<>>
        /\ remaining_edges' = [remaining_edges EXCEPT ![v] = PopOption(@)]
        /\ IF opt[1] \in fc_used
             THEN UNCHANGED <<fc_used, stack, stack_e>>
             ELSE /\ fc_used' = fc_used \cup {opt[1]}
                  /\ stack' = Append(stack, opt[2])
                  /\ stack_e' = Append(stack_e, opt[1])
  /\ UNCHANGED <<nodes, edges, graph_type, pc, analysis, adj, fc_circuit, circuit_e,
                 start_vertex, circuit, used_edges, path, trail, response>>

\* the inner loop ends: stack.pop() and, if stack_e, circuit.append(stack_e.pop())
\* (the legacy circuit of edge ids is kept in circuit_e)
LegacyBacktrack ==
  /\ pc = "legacy_loop"
  /\ stack # <<>>
  /\ remaining_edges[stack[Len(stack)]] = <<>>
  /\ stack' = SubSeq(stack, 1, Len(stack) - 1)
  /\ IF stack_e # <<>>
       THEN /\ circuit_e' = Append(circuit_e, stack_e[Len(stack_e)])
            /\ stack_e' = SubSeq(stack_e, 1, Len(stack_e) - 1)
       ELSE UNCHANGED <<stack_e, circuit_e>>
  /\ UNCHANGED <<nodes, edges, graph_type, pc, analysis, adj, fc_circuit, fc_used,
                 remaining_edges, start_vertex, circuit, used_edges, path, trail, response>>

\* the stack loop ends: circuit.reverse() and the length test
LegacyReturn ==
  /\ pc = "legacy_loop"
  /\ stack = <<>>
  /\ trail' = IF Len(circuit_e) = Len(edges)
                THEN [none |-> FALSE, ids |-> Reverse(circuit_e)]
                ELSE NoTrail
  /\ pc' = "legacy_built"
  /\ UNCHANGED <<nodes, edges, graph_type, analysis, adj, stack, fc_circuit, fc_used,
                 remaining_edges, stack_e, circuit_e, start_vertex, circuit, used_edges, path,
                 response>>

\* the answer of the legacy branch of find_euler_trail; the second call of
\* _choose_start_* walks the same unmodified set, so it returns analysis
LegacyRespond ==
  /\ pc = "legacy_built"
  /\ response' =
       IF trail.none
         THEN Failure(IF analysis.reason # "" THEN analysis.reason ELSE "No Euler trail exists")
         ELSE [success |-> TRUE, error |-> "", trail |-> LegacyTrailSteps(edges, trail.ids)]
  /\ pc' = "done"
  /\ UNCHANGED <<nodes, edges, graph_type, analysis, adj, stack, fc_circuit, fc_used,
                 remaining_edges, stack_e, circuit_e, start_vertex, circuit, used_edges, path,
                 trail>>

NextTerm ==
  \/ AnalyzeMixedGraph
  \/ HierholzerBegin
  \/ FindCircuitUseEdge
  \/ FindCircuitBacktrack
  \/ FindCircuitReturn
  \/ SpliceLoop
  \/ HierholzerConvert
  \/ FindEulerTrailRespond
  \/ LegacyBegin
  \/ LegacyTakeOption
  \/ LegacyBacktrack
  \/ LegacyReturn
  \/ LegacyRespond

\* One request is served by one thread that runs its handler to the return,
\* so a step that can be taken is taken.
SpecTerm == InitTerm /\ [][NextTerm]_vars /\ WF_vars(NextTerm)

-----------------------------------------------------------------------------
(* Vocabulary of the properties, defined from the graph alone *)

Analyzed == pc # "start"

Built == pc \in {"built", "done"}

UniqueIds(es) == \A i, j \in DOMAIN es : es[i].id = es[j].id => i = j

WellFormed == UniqueIds(edges) /\ Endpoints(edges) \subseteq nodes

Feasible == analysis.ok /\ analysis.start # None

EdgeById(es, eid) == es[CHOOSE k \in DOMAIN es : es[k].id = eid]

\* the vertex reached by walking the edges ids[i..] from v, None if some edge
\* cannot be taken from where the walk stands
RECURSIVE FollowTrail(_, _, _, _)
FollowTrail(es, ids, i, v) ==
  IF i > Len(ids) THEN v
  ELSE LET e == EdgeById(es, ids[i])
       IN IF e.source = v THEN FollowTrail(es, ids, i + 1, e.target)
          ELSE IF ~e.directed /\ e.target = v THEN FollowTrail(es, ids, i + 1, e.source)
          ELSE None

\* some ordering of the edges in the set left continues a walk standing at v
RECURSIVE CanFinish(_, _, _)
CanFinish(es, v, left) ==
  \/ left = {}
  \/ \E k \in left :
       \/ es[k].source = v /\ CanFinish(es, es[k].target, left \ {k})
       \/ ~es[k].directed /\ es[k].target = v /\ CanFinish(es, es[k].source, left \ {k})

HasEulerTrail(es) == \E v \in Endpoints(es) : CanFinish(es, v, DOMAIN es)

\* vertices joined to the set S by a chain of edges taken as undirected links
RECURSIVE LinkClosure(_, _)
LinkClosure(es, S) ==
  LET T == S \cup {es[k].target : k \in {j \in DOMAIN es : es[j].source \in S}}
              \cup {es[k].source : k \in {j \in DOMAIN es : es[j].target \in S}}
  IN IF T = S THEN S ELSE LinkClosure(es, T)

Linked(es) == \A u \in Endpoints(es) : LinkClosure(es, {u}) = Endpoints(es)

OutDeg(es, v) ==
  Cardinality({k \in DOMAIN es : es[k].source = v})
    + Cardinality({k \in DOMAIN es : ~es[k].directed /\ es[k].target = v})

InDeg(es, v) ==
  Cardinality({k \in DOMAIN es : es[k].target = v})
    + Cardinality({k \in DOMAIN es : ~es[k].directed /\ es[k].source = v})

StartCandidates == {v \in nodes : OutDeg(edges, v) - InDeg(edges, v) = 1}

EndCandidates == {v \in nodes : InDeg(edges, v) - OutDeg(edges, v) = 1}

Unbalanced ==
  {v \in nodes : OutDeg(edges, v) - InDeg(edges, v) > 1 \/ InDeg(edges, v) - OutDeg(edges, v) > 1}

Parallel(es) ==
  \E i, j \in DOMAIN es :
    i # j /\ {es[i].source, es[i].target} = {es[j].source, es[j].target}

\* the ids the traversal consumed, in path order
Consumed == Reverse(circuit_e)

\* the traversal's own bookkeeping is a walk over every edge: step i is made
\* with the edge consumed for it, from path[i] to path[i + 1]
TraversalValid ==
  /\ Len(Consumed) = Len(edges)
  /\ Len(path) = Len(edges) + 1
  /\ \A i \in 1..Len(Consumed) :
       LET e == EdgeById(edges, Consumed[i])
       IN \/ e.source = path[i] /\ e.target = path[i + 1]
          \/ ~e.directed /\ e.source = path[i + 1] /\ e.target = path[i]

-----------------------------------------------------------------------------
(* Properties *)

\* C1: for a graph with at least one edge, unique ids and all endpoints in the
\* vertex set, a Feasible verdict of the analyzer means _hierholzer_mixed
\* returns a trail, never None.
C1_FeasibleGivesTrail ==
  (Built /\ Len(edges) >= 1 /\ WellFormed /\ Feasible) => ~trail.none

\* C2: a non-None result of _hierholzer_mixed is an Eulerian trail: as long as
\* the edge list, every edge id exactly once, and walkable from the chosen
\* start vertex with directed edges taken source to target only; any other
\* result is None with no sequence at all.
C2_TrailIsEulerian ==
  (pc = "built" /\ UniqueIds(edges)) =>
    IF trail.none THEN trail.ids = <<>>
    ELSE /\ Len(trail.ids) = Len(edges)
         /\ Range(trail.ids) = {edges[k].id : k \in DOMAIN edges}
         /\ \A i, j \in DOMAIN trail.ids : trail.ids[i] = trail.ids[j] => i = j
         /\ FollowTrail(edges, trail.ids, 1, analysis.start) # None

C2_Witness ==
  /\ pc = "built"
  /\ ~trail.none
  /\ Len(trail.ids) >= 3
  /\ \E k \in DOMAIN edges : edges[k].directed
  /\ \E i \in DOMAIN path : i < Len(path) /\
       ~EdgeById(edges, trail.ids[i]).directed /\ EdgeById(edges, trail.ids[i]).source # path[i]

\* C3: in a successful response the steps form one continuous walk: the target
\* of each step is the source of the next.
C3_StepsContinuous ==
  response.success =>
    \A i \in 1..(Len(response.trail) - 1) :
      response.trail[i].target = response.trail[i + 1].source

\* C4: an infeasible verdict is definitive: if the analyzer returns ok = false
\* for a graph with at least one edge, unique ids and all endpoints in the
\* vertex set, the graph has no Eulerian trail.
C4_InfeasibleIsDefinitive ==
  (Analyzed /\ Len(edges) >= 1 /\ WellFormed /\ ~analysis.ok) => ~HasEulerTrail(edges)

\* C5: the reported kind agrees with the trail built: the type is 'cycle'
\* exactly when the walk ends at the vertex it starts from.
C5_KindAgreesWithWalk ==
  (Built /\ analysis.ok /\ ~trail.none) =>
    ((analysis.type = "cycle") <=>
       (FollowTrail(edges, trail.ids, 1, analysis.start) = analysis.start))

\* C6: with exactly one start candidate and one end candidate the analyzer
\* reports type 'path' from the start candidate to the end candidate, and a
\* trail then returned begins at that start and ends at that end.
C6_PathEndpoints ==
  (Built /\ Len(edges) >= 1 /\ WellFormed /\ Linked(edges) /\ Unbalanced = {}
     /\ Cardinality(StartCandidates) = 1 /\ Cardinality(EndCandidates) = 1) =>
    /\ analysis.ok
    /\ analysis.type = "path"
    /\ analysis.start \in StartCandidates
    /\ analysis.end \in EndCandidates
    /\ ~trail.none => FollowTrail(edges, trail.ids, 1, analysis.start) = analysis.end

\* C7: the verdict 'Graph is not connected' is given exactly when the vertices
\* with an incident edge are not all joined by edges taken as undirected links,
\* whatever the degree balance and whatever isolated vertices there are, and
\* such a graph gets no trail and no successful response.
C7_NotConnectedVerdict ==
  pc \in {"analyzed", "built", "done"} =>
    /\ (analysis.reason = "Graph is not connected") <=> ~Linked(edges)
    /\ ~Linked(edges) => ~analysis.ok
    /\ (Built /\ ~Linked(edges)) => trail.none
    /\ (pc = "done" /\ ~Linked(edges)) => ~response.success

C7_Witness ==
  /\ pc = "done"
  /\ analysis.reason = "Graph is not connected"
  /\ Unbalanced # {}
  /\ nodes # Endpoints(edges)
  /\ ~response.success

\* C8: on a connected graph with at least one edge and all endpoints in the
\* vertex set the verdict is the decision table: infeasible if some vertex has
\* |out - in| > 1, otherwise feasible exactly when the start and end candidates
\* number 0 and 0 or 1 and 1.
C8_DecisionTable ==
  (pc = "analyzed" /\ Len(edges) >= 1 /\ Endpoints(edges) \subseteq nodes /\ Linked(edges)) =>
    IF Unbalanced # {} THEN ~analysis.ok
    ELSE analysis.ok <=>
           \/ Cardinality(StartCandidates) = 0 /\ Cardinality(EndCandidates) = 0
           \/ Cardinality(StartCandidates) = 1 /\ Cardinality(EndCandidates) = 1

C8_Witness ==
  /\ pc = "analyzed"
  /\ Linked(edges)
  /\ Unbalanced = {}
  /\ Cardinality(StartCandidates) = 2
  /\ Cardinality(EndCandidates) = 2
  /\ \E k \in DOMAIN edges : ~edges[k].directed
  /\ ~analysis.ok

\* C9: for a graph with no edges the analyzer reports infeasible with reason
\* 'no edges', never ok = true and never 'not connected'.
C9_NoEdgesInfeasible ==
  (Analyzed /\ edges = <<>>) =>
    /\ ~analysis.ok
    /\ analysis.reason = "Graph has no edges"

\* C10: with parallel edges, a returned trail names at each step the edge the
\* traversal consumed for that move, and the re-matching by endpoints does not
\* fail on a vertex path the traversal walked validly.
C10_RematchKeepsConsumed ==
  (pc = "built" /\ Feasible /\ UniqueIds(edges) /\ Parallel(edges)) =>
    /\ ~trail.none => trail.ids = Consumed
    /\ TraversalValid => ~trail.none

C10_Witness ==
  /\ pc = "built"
  /\ ~trail.none
  /\ Len(trail.ids) >= 3
  /\ \E i, j \in DOMAIN edges :
       /\ i # j
       /\ {edges[i].source, edges[i].target} = {edges[j].source, edges[j].target}
       /\ edges[i].source # edges[i].target
       /\ edges[i].directed /\ ~edges[j].directed

-----------------------------------------------------------------------------
\* C11: on a graph with unique edge ids and all endpoints in the vertex set
\* that _analyze_mixed_graph finds feasible, the first find_circuit call from
\* the certified start marks every edge used, so the test of the splice loop
\* fails at once: its body never runs and no second find_circuit is started.
C11_SinglePassSuffices ==
  (pc \in {"splice", "convert"} /\ WellFormed /\ Feasible) =>
    /\ used_edges = {edges[k].id : k \in DOMAIN edges}
    /\ Cardinality(used_edges) = Len(edges)
    /\ start_vertex = None

\* the first find_circuit has returned on a feasible graph of MaxEdges edges of
\* both kinds, and every edge is marked used
C11_Witness ==
  /\ pc = "splice"
  /\ WellFormed
  /\ Feasible
  /\ Len(edges) = MaxEdges
  /\ DirectedEdges(edges) # <<>>
  /\ UndirectedEdges(edges) # <<>>
  /\ Cardinality(used_edges) = Len(edges)

-----------------------------------------------------------------------------
\* C12: every trail computation ends in a final Success or Failure answer, on
\* every graph of either format, with self-loops, parallel edges, disconnected
\* parts or repeated edge ids: the stack loops of _hierholzer_undirected and
\* _hierholzer_directed, the find_circuit loop and the splice loop all reach
\* their exit, and the answered state is never left.
Terminated == pc = "done" /\ (response.success \/ response.error # "")

C12_Terminates == <>[]Terminated

\* a mixed request with a repeated edge id has been answered after find_circuit
\* ran and the splice loop was entered with an id count below the edge count
C12_Witness ==
  /\ Terminated
  /\ graph_type = "mixed"
  /\ ~UniqueIds(edges)
  /\ circuit # <<>>
  /\ Cardinality(used_edges) < Len(edges)

====
